---- MODULE Spec2Model ----
(***************************************************************************)
(* Model of torch/_inductor/codegen/cpp_prefix.h: mod,                     *)
(* uint32_to_uniform_float, atomic_add, flag_to_float and to_float_mask.   *)
(*                                                                         *)
(* A 32-bit pattern is a pair <<hi, lo>> of 16-bit halves, so that         *)
(* patterns with bit 31 set (0xFFFFFFFF, negative floats) are ordinary     *)
(* values.  A float is its IEEE-754 binary32 pattern; arithmetic decodes   *)
(* the fields, computes exactly and rounds to nearest-even.                *)
(***************************************************************************)
EXTENDS Integers, Sequences, FiniteSets, TLC

VARIABLES
  mem,       \* atomic_add: the 32-bit pattern held by *addr
  pc,        \* atomic_add: per thread "idle" (in no call), "cas" or "retry"
  expected,  \* atomic_add: per thread, the union `expected` (as its intV pattern)
  desired,   \* atomic_add: per thread, the union `desired` (as its intV pattern)
  offset,    \* atomic_add: per thread, the argument `offset` of the running call
  calls,     \* per thread, the number of atomic_add calls that have returned
  loadVer,   \* per thread, how many writes *addr had had when `expected` was read
  fails,     \* per thread, the failed compare-exchanges of the running call
  flag,      \* flag_to_float: the call's arguments, destination and position
  vec,       \* to_float_mask: source vector, path taken and result vector
  uni,       \* uint32_to_uniform_float: arguments and results
  md         \* mod: type, operands and outcome

vars == <<mem, pc, expected, desired, offset, calls, loadVer, fails, flag, vec, uni, md>>

atomVars == <<mem, pc, expected, desired, offset, calls, loadVer, fails>>

----------------------------------------------------------------------------
(* Bounds *)

NumThreads == 2       \* N: threads calling atomic_add on one location
CallsPerThread == 3   \* M: calls each thread makes when every thread adds 1
MaxCalls == 3         \* calls made in all when threads add arbitrary offsets
BufLen == 5           \* slots of the src / dst arrays given to flag_to_float
Lanes == 2            \* lanes of a Vectorized<float> that are modelled

Threads == 1..NumThreads

----------------------------------------------------------------------------
(* 32-bit patterns and binary32 *)

Pow2(n) == 2 ^ n

\* the position of the leading one bit of a byte
Lg8 == [k \in 1..255 |-> CHOOSE e \in 0..7 : 2 ^ e <= k /\ k < 2 ^ (e + 1)]

\* the position of the leading one bit of n (1 <= n < 2^31)
ILog2Of[n \in Nat] ==
  IF n < 65536
    THEN (IF n < 256 THEN Lg8[n] ELSE 8 + Lg8[n \div 256])
    ELSE (IF n < 16777216 THEN 16 + Lg8[n \div 65536] ELSE 24 + Lg8[n \div 16777216])
ILog2(n) == ILog2Of[n]

Half == 2 ^ 16
IntMax == (2 ^ 30 - 1) * 2 + 1
IntMin == (0 - IntMax) - 1

AllOnes == <<65535, 65535>>   \* 0xFFFFFFFF
AllZeros == <<0, 0>>          \* 0x00000000

\* the pattern with sign s, biased exponent e and fraction m
PackFloat(s, e, m) == <<s * 32768 + e * 128 + m \div Half, m % Half>>

SignOf(w) == w[1] \div 32768
ExpoOf(w) == (w[1] % 32768) \div 128
FracOf(w) == (w[1] % 128) * Half + w[2]

\* round q (with remainder r out of 2*half) to nearest, ties to even
RoundNearestEven(q, r, half) ==
  IF r > half \/ (r = half /\ q % 2 = 1) THEN q + 1 ELSE q

\* the float with sign s nearest to the magnitude a, whose leading one bit is bit e
MagPack[s \in 0..1, a \in Nat, e \in 0..30] ==
  LET q == IF e <= 23
             THEN a * Pow2(23 - e)
             ELSE RoundNearestEven(a \div Pow2(e - 23), a % Pow2(e - 23), Pow2(e - 24))
  IN  IF q = Pow2(24)
        THEN PackFloat(s, 127 + e + 1, 0)
        ELSE PackFloat(s, 127 + e, q - Pow2(23))

\* the float nearest to the magnitude a (1 <= a <= IntMax) with sign s
MagToFloat(s, a) == MagPack[s, a, ILog2(a)]

\* conversion of a signed 32-bit integer to float
IntToFloatOf[n \in Int] ==
  IF n = 0 THEN AllZeros
  ELSE IF n = IntMin THEN PackFloat(1, 158, 0)
  ELSE IF n < 0 THEN MagToFloat(1, 0 - n)
  ELSE MagToFloat(0, n)
IntToFloat(n) == IntToFloatOf[n]

\* conversion of an unsigned 32-bit integer <<hi, lo>> to float
UIntToFloat(w) ==
  IF w[1] < 32768
    THEN IntToFloat(w[1] * Half + w[2])
    ELSE LET q == RoundNearestEven(w[1] * 256 + w[2] \div 256, w[2] % 256, 128)
         IN  IF q = Pow2(24) THEN PackFloat(0, 159, 0)
                             ELSE PackFloat(0, 158, q - Pow2(23))

\* the integer a float holds (floats that hold an integer below 2^31 in magnitude)
FloatAsIntOf[w \in Nat \X Nat] ==
  IF ExpoOf(w) = 0 THEN 0
  ELSE LET e == ExpoOf(w) - 127
           m == Pow2(23) + FracOf(w)
           a == IF e >= 23 THEN m * Pow2(e - 23) ELSE m \div Pow2(23 - e)
       IN  IF SignOf(w) = 1 THEN 0 - a ELSE a
FloatAsInt(w) == FloatAsIntOf[w]

\* expected.fV + offset: float addition of two integer-valued floats
FAdd(x, y) == IntToFloat(FloatAsInt(x) + FloatAsInt(y))

----------------------------------------------------------------------------
(* atomic_add<float> *)

One == IntToFloat(1)
Offsets == {IntToFloat(1), IntToFloat(0 - 1)}

\* the writes *addr has had: each returned call has made exactly one
Ver == LET RECURSIVE Sum(_)
           Sum(n) == IF n = 0 THEN 0 ELSE calls[n] + Sum(n - 1)
       IN  Sum(NumThreads)

\* faulty variant: an exchange that stores without comparing
CasAlways(t) == TRUE
\* std::atomic_compare_exchange_strong compares *atomic_addr with *expected_intV
CasMatches(t) == mem = expected[t]

\* faulty variant: an exchange that may fail although the patterns are equal
CasSpurious(t) == TRUE
\* the strong exchange fails only when the patterns differ
CasMismatch(t) == mem # expected[t]

\* the calls begun so far
Started == Ver + Cardinality({t \in Threads : pc[t] # "idle"})

\* lines 65-66 at the start of a call: expected.fV = *addr; desired.fV = expected.fV + offset
\* (the plain read yields the content of *addr at the read)
Call(t, off) ==
  /\ pc[t] = "idle"
  /\ offset' = [offset EXCEPT ![t] = off]
  /\ expected' = [expected EXCEPT ![t] = mem]
  /\ desired' = [desired EXCEPT ![t] = FAdd(mem, off)]
  /\ loadVer' = [loadVer EXCEPT ![t] = Ver]
  /\ fails' = [fails EXCEPT ![t] = 0]
  /\ pc' = [pc EXCEPT ![t] = "cas"]
  /\ UNCHANGED <<mem, calls, flag, vec, uni, md>>

\* lines 69-70, the exchange succeeds: *addr = desired.intV, the loop and the call end
CasSucceed(t) ==
  /\ pc[t] = "cas"
  /\ CasMatches(t)
  /\ mem' = desired[t]
  /\ calls' = [calls EXCEPT ![t] = @ + 1]
  /\ pc' = [pc EXCEPT ![t] = "idle"]
  \* the call's frame (expected, desired, offset) ends with the call
  /\ expected' = [expected EXCEPT ![t] = AllZeros]
  /\ desired' = [desired EXCEPT ![t] = AllZeros]
  /\ offset' = [offset EXCEPT ![t] = AllZeros]
  /\ loadVer' = [loadVer EXCEPT ![t] = 0]
  /\ fails' = [fails EXCEPT ![t] = 0]
  /\ UNCHANGED <<flag, vec, uni, md>>

\* lines 69-70, the exchange fails: *expected_intV = *addr, the loop body is entered
CasFail(t) ==
  /\ pc[t] = "cas"
  /\ CasMismatch(t)
  /\ expected' = [expected EXCEPT ![t] = mem]
  /\ loadVer' = [loadVer EXCEPT ![t] = Ver]
  /\ fails' = [fails EXCEPT ![t] = @ + 1]
  /\ pc' = [pc EXCEPT ![t] = "retry"]
  /\ UNCHANGED <<mem, desired, offset, calls, flag, vec, uni, md>>

\* What the plain (non-atomic) read of *addr at line 76 can yield while other
\* threads write *addr: the content of *addr at the read, or the content the
\* failed exchange has just stored into `expected` (a build may reuse it, the
\* read being unordered with the other threads' writes).
RetryLoads(t) == {[val |-> mem, ver |-> Ver], [val |-> expected[t], ver |-> loadVer[t]]}

\* faulty variant: the retry re-reads expected and keeps the old desired
RetryKeepDesired(t) ==
  /\ pc[t] = "retry"
  /\ \E ld \in RetryLoads(t) :
       /\ expected' = [expected EXCEPT ![t] = ld.val]
       /\ loadVer' = [loadVer EXCEPT ![t] = ld.ver]
  /\ pc' = [pc EXCEPT ![t] = "cas"]
  /\ UNCHANGED <<mem, desired, offset, calls, fails, flag, vec, uni, md>>

\* lines 71-77: pause, expected.fV = *addr; desired.fV = expected.fV + offset
Retry(t) ==
  /\ pc[t] = "retry"
  /\ \E ld \in RetryLoads(t) :
       /\ expected' = [expected EXCEPT ![t] = ld.val]
       /\ desired' = [desired EXCEPT ![t] = FAdd(ld.val, offset[t])]
       /\ loadVer' = [loadVer EXCEPT ![t] = ld.ver]
  /\ pc' = [pc EXCEPT ![t] = "cas"]
  /\ UNCHANGED <<mem, offset, calls, fails, flag, vec, uni, md>>

Idle == [op |-> "none"]

InitAtomic ==
  /\ mem = AllZeros
  /\ pc = [t \in Threads |-> "idle"]
  /\ expected = [t \in Threads |-> AllZeros]
  /\ desired = [t \in Threads |-> AllZeros]
  /\ offset = [t \in Threads |-> AllZeros]
  /\ calls = [t \in Threads |-> 0]
  /\ loadVer = [t \in Threads |-> 0]
  /\ fails = [t \in Threads |-> 0]
  /\ flag = Idle /\ vec = Idle /\ uni = Idle /\ md = Idle

Loop(t) == CasSucceed(t) \/ CasFail(t) \/ Retry(t)

\* threads adding arbitrary offsets, MaxCalls calls in all
StepAtomic(t) ==
  \/ Started < MaxCalls /\ \E off \in Offsets : Call(t, off)
  \/ Loop(t)
NextAtomic == \E t \in Threads : StepAtomic(t)
SpecAtomic == InitAtomic /\ [][NextAtomic]_vars

\* N threads each adding 1 M times
StepCount(t) ==
  \/ calls[t] < CallsPerThread /\ Call(t, One)
  \/ Loop(t)
NextCount == \E t \in Threads : StepCount(t)
SpecCount == InitAtomic /\ [][NextCount]_vars
\* every thread that can take a step keeps being scheduled
LiveCount == SpecCount /\ \A t \in Threads : WF_vars(StepCount(t))

AllDone == \A t \in Threads : pc[t] = "idle" /\ calls[t] = CallsPerThread

AtomicIdle ==
  /\ mem = AllZeros
  /\ pc = [t \in Threads |-> "idle"]
  /\ expected = [t \in Threads |-> AllZeros]
  /\ desired = [t \in Threads |-> AllZeros]
  /\ offset = [t \in Threads |-> AllZeros]
  /\ calls = [t \in Threads |-> 0]
  /\ loadVer = [t \in Threads |-> 0]
  /\ fails = [t \in Threads |-> 0]

----------------------------------------------------------------------------
(* flag_to_float *)

FlagVals == {0, 1, 255}   \* bool / uint8_t source values

\* the destination memory before the call: BufLen distinct non-mask patterns
DstInit == [i \in 1..BufLen |-> <<16256, i>>]

\* src ? 0xFFFFFFFF : 0, stored through the uint32_t alias of dst
FlagWord(b) == IF b # 0 THEN AllOnes ELSE AllZeros
\* faulty variant: src ? 1 : 0
FlagWordAsBit(b) == IF b # 0 THEN <<0, 1>> ELSE AllZeros

\* lines 87-90: the loop of the array form, from position i (dst_u32[i] is dst[i + 1])
\* faulty variant: every position converts *src instead of *(src + i)
RECURSIVE BatchLoopFirst(_, _, _, _)
BatchLoopFirst(src, dst, n, i) ==
  IF i < n
    THEN BatchLoopFirst(src, [dst EXCEPT ![i + 1] = FlagWord(src[1])], n, i + 1)
    ELSE dst

RECURSIVE BatchLoop(_, _, _, _)
BatchLoop(src, dst, n, i) ==
  IF i < n
    THEN BatchLoop(src, [dst EXCEPT ![i + 1] = FlagWord(src[i + 1])], n, i + 1)
    ELSE dst

\* lines 96-99: the loop of the scalar-source form, from position i
\* faulty variant: the loop stores src ? 1 : 0
RECURSIVE ScalarLoopAsBit(_, _, _, _)
ScalarLoopAsBit(src, dst, n, i) ==
  IF i < n
    THEN ScalarLoopAsBit(src, [dst EXCEPT ![i + 1] = FlagWordAsBit(src)], n, i + 1)
    ELSE dst

RECURSIVE ScalarLoop(_, _, _, _)
ScalarLoop(src, dst, n, i) ==
  IF i < n
    THEN ScalarLoop(src, [dst EXCEPT ![i + 1] = FlagWord(src)], n, i + 1)
    ELSE dst

\* flag_to_float(const T* src, float* dst, int64_t n)
FlagBatch ==
  /\ flag.op = "ready"
  /\ flag' = [flag EXCEPT !.op = "batch",
                          !.dst = BatchLoop(flag.src, flag.dst, flag.n, 0)]
  /\ UNCHANGED <<atomVars, vec, uni, md>>

\* flag_to_float(T src, float* dst, int64_t n)
FlagScalar ==
  /\ flag.op = "ready"
  /\ flag' = [flag EXCEPT !.op = "scalar",
                          !.dst = ScalarLoop(flag.flg, flag.dst, flag.n, 0)]
  /\ UNCHANGED <<atomVars, vec, uni, md>>

\* the caller's arguments: n slots of src and dst are valid, 0 <= n <= BufLen
InitFlag ==
  /\ \E s \in [1..BufLen -> FlagVals], f \in FlagVals, n \in 0..BufLen :
       flag = [op |-> "ready", src |-> s, flg |-> f, dst |-> DstInit, n |-> n]
  /\ AtomicIdle
  /\ vec = Idle /\ uni = Idle /\ md = Idle

NextFlag == FlagBatch \/ FlagScalar
SpecFlag == InitFlag /\ [][NextFlag]_vars

----------------------------------------------------------------------------
(* to_float_mask *)

\* lane values of the source vector (int lanes)
LaneVals == {IntMin, 0 - 1, 0, 1, 2, 255, 16777217, IntMax}

\* line 114: dst_tmp[i] = src_tmp[i] ? 0xFFFFFFFF : 0, an assignment to a float:
\* the unsigned value is converted to float
MaskLane(x) == UIntToFloat(IF x # 0 THEN AllOnes ELSE AllZeros)

\* lines 110-117: store src, convert lane i onwards, reload
RECURSIVE GenericLoop(_, _, _)
GenericLoop(srcTmp, dstTmp, i) ==
  IF i < Lanes
    THEN GenericLoop(srcTmp, [dstTmp EXCEPT ![i + 1] = MaskLane(srcTmp[i + 1])], i + 1)
    ELSE dstTmp

\* to_float_mask<SRC>: lines 103-118
ToFloatMask(src) == GenericLoop(src, [i \in 1..Lanes |-> AllZeros], 0)

\* to_float_mask<int>: lines 120-127, _mm256_cvtepi32_ps / _mm512_cvtepi32_ps
ToFloatMaskInt(src) == [i \in 1..Lanes |-> IntToFloat(src[i])]

MaskGeneric ==
  /\ vec.op = "ready"
  /\ vec' = [op |-> "generic", src |-> vec.src, res |-> ToFloatMask(vec.src)]
  /\ UNCHANGED <<atomVars, flag, uni, md>>

MaskInt ==
  /\ vec.op = "ready"
  /\ vec' = [op |-> "int", src |-> vec.src, res |-> ToFloatMaskInt(vec.src)]
  /\ UNCHANGED <<atomVars, flag, uni, md>>

InitMask ==
  /\ \E s \in [1..Lanes -> LaneVals] :
       vec = [op |-> "ready", src |-> s, res |-> [i \in 1..Lanes |-> AllZeros]]
  /\ AtomicIdle
  /\ flag = Idle /\ uni = Idle /\ md = Idle

NextMask == MaskGeneric \/ MaskInt
SpecMask == InitMask /\ [][NextMask]_vars

----------------------------------------------------------------------------
(* uint32_to_uniform_float *)

\* line 25: the float nearest to 4.6566127342e-10 is (2^24 - 1) * 2^-55, 0x2FFFFFFF
Scale == PackFloat(0, 95, 8388607)

\* faulty variant: the value unmasked
NoMask(w) == w
\* value & 0x7FFFFFFF
And31(w) == <<w[1] % 32768, w[2]>>

\* the product of two floats that are zero or normal, rounded to nearest-even;
\* the 24-bit significands are multiplied in 12-bit limbs: a * b = hi * 2^24 + lo
FMul(x, y) ==
  IF ExpoOf(x) = 0 \/ ExpoOf(y) = 0 THEN AllZeros
  ELSE LET a == Pow2(23) + FracOf(x)
           b == Pow2(23) + FracOf(y)
           a1 == a \div 4096
           a0 == a % 4096
           b1 == b \div 4096
           b0 == b % 4096
           mid == a1 * b0 + a0 * b1
           low == a0 * b0 + (mid % 4096) * 4096
           lo == low % Pow2(24)
           hi == a1 * b1 + mid \div 4096 + low \div Pow2(24)
           big == hi >= Pow2(23)
           q == IF big
                  THEN RoundNearestEven(hi, lo, Pow2(23))
                  ELSE RoundNearestEven(2 * hi + lo \div Pow2(23), lo % Pow2(23), Pow2(22))
           e == ExpoOf(x) + ExpoOf(y) - 127 + (IF big THEN 1 ELSE 0)
           s == (SignOf(x) + SignOf(y)) % 2
       IN  IF q = Pow2(24) THEN PackFloat(s, e + 1, 0)
                           ELSE PackFloat(s, e, q - Pow2(23))

\* line 26: static_cast<float>(value & 0x7FFFFFFF) * scale
Uint32ToUniformFloat(value) == FMul(UIntToFloat(And31(value)), Scale)

\* x <= y for floats that are zero or positive
FLe(x, y) == \/ ExpoOf(x) < ExpoOf(y)
             \/ ExpoOf(x) = ExpoOf(y) /\ FracOf(x) <= FracOf(y)

\* the low 31 bits of a 32-bit value, as an integer
Low31(w) == (w[1] % 32768) * Half + w[2]

UniHi == {0, 1, 255, 256, 32767, 32768, 32769, 65535}
UniLo == {0, 1, 2, 127, 128, 129, 255, 32768, 65534, 65535}

Uniform ==
  /\ uni.op = "ready"
  /\ uni' = [uni EXCEPT !.op = "done",
                        !.rx = Uint32ToUniformFloat(uni.x),
                        !.ry = Uint32ToUniformFloat(uni.y)]
  /\ UNCHANGED <<atomVars, flag, vec, md>>

InitUniform ==
  /\ \E x \in UniHi \X UniLo, y \in UniHi \X UniLo :
       uni = [op |-> "ready", x |-> x, y |-> y, rx |-> AllZeros, ry |-> AllZeros]
  /\ AtomicIdle
  /\ flag = Idle /\ vec = Idle /\ md = Idle

NextUniform == Uniform
SpecUniform == InitUniform /\ [][NextUniform]_vars

----------------------------------------------------------------------------
(* mod *)

ModTypes == {"int8_t", "uint8_t", "int32_t"}

ModVals(ty) ==
  IF ty = "int8_t" THEN {0 - 128, 0 - 127, 0 - 7, 0 - 1, 0, 1, 2, 7, 127}
  ELSE IF ty = "uint8_t" THEN {0, 1, 2, 7, 128, 255}
  ELSE {IntMin, IntMin + 1, 0 - 7, 0 - 1, 0, 1, 2, 7, IntMax}

\* faulty variant: the remainder of the division that rounds down (sign of b)
CRemFloor(a, b) ==
  IF b = IntMin THEN (IF a = IntMin \/ a = 0 THEN 0 ELSE IF a < 0 THEN a ELSE a + b)
  ELSE LET d == IF b < 0 THEN 0 - b ELSE b
           m == a % d
       IN  IF b < 0 /\ m # 0 THEN m - d ELSE m
\* a % b on int when the quotient is representable: the remainder of the division
\* that truncates toward zero.  |b| = 2^31 is no int, so b = INT_MIN is apart.
CRem(a, b) ==
  IF b = IntMin THEN (IF a = IntMin THEN 0 ELSE a)
  ELSE LET d == IF b < 0 THEN 0 - b ELSE b
           m == a % d
       IN  IF a < 0 /\ m # 0 THEN m - d ELSE m

\* the conversion of the int result back to T
Narrow(ty, v) ==
  IF ty = "int8_t" THEN ((v + 128) % 256) - 128
  ELSE IF ty = "uint8_t" THEN v % 256
  ELSE v

\* a / b is not representable: a % b is undefined (x86 idiv traps, aarch64 yields 0)
Overflows(ty, a, b) == ty = "int32_t" /\ a = IntMin /\ b = 0 - 1

\* line 19: return a % b (operands narrower than int are promoted to int)
ModOutcomes(ty, a, b) ==
  IF Overflows(ty, a, b)
    THEN {[trap |-> TRUE, val |-> 0], [trap |-> FALSE, val |-> 0]}
    ELSE {[trap |-> FALSE, val |-> Narrow(ty, CRem(a, b))]}

Mod ==
  /\ md.op = "ready"
  /\ \E o \in ModOutcomes(md.ty, md.a, md.b) :
       md' = [md EXCEPT !.op = "done", !.trap = o.trap, !.res = o.val]
  /\ UNCHANGED <<atomVars, flag, vec, uni>>

\* the caller's operands: b = 0 is excluded (division by zero is the caller's error)
InitMod ==
  /\ \E ty \in ModTypes : \E a \in ModVals(ty), b \in ModVals(ty) \ {0} :
       md = [op |-> "ready", ty |-> ty, a |-> a, b |-> b, trap |-> FALSE, res |-> 0]
  /\ AtomicIdle
  /\ flag = Idle /\ vec = Idle /\ uni = Idle

NextMod == Mod
SpecMod == InitMod /\ [][NextMod]_vars

----------------------------------------------------------------------------
(* Properties *)

\* a step in which thread t's call returns
ReturnStep(t) == pc[t] # "idle" /\ pc'[t] = "idle"

\* a step in which thread t attempts its compare-exchange
CasStep(t) == pc[t] = "cas" /\ pc'[t] # "cas"

\* C1: when N threads have each called atomic_add(addr, 1) M times on a location
\* that held 0, and all calls have returned, the location holds exactly N * M.
C1_NoLostUpdate == AllDone => FloatAsInt(mem) = NumThreads * CallsPerThread

C1_Witness == AllDone /\ FloatAsInt(mem) = NumThreads * CallsPerThread

\* C2: the step in which a call returns is a write that replaces the value v of
\* *addr by v + offset, and *addr is written in no other step: a call makes exactly
\* one write, by its one successful compare-exchange.
C2_AppliedExactlyOnce ==
  [][/\ \A t \in Threads : ReturnStep(t) => mem' = FAdd(mem, offset[t])
     /\ mem' # mem => \E t \in Threads : ReturnStep(t)]_vars

C2_Witness ==
  \E t, u \in Threads : calls[t] >= 1 /\ pc[t] = "idle" /\ pc[u] = "retry"

\* C3: a call leaves its loop only by a successful compare-exchange; a
\* compare-exchange fails only when another call's exchange has succeeded since
\* `expected` was read; a call fails at most as often as there are competing calls;
\* and when every thread keeps being scheduled every call returns.
C3_Progress ==
  /\ [][\A t \in Threads :
          /\ ReturnStep(t) => pc[t] = "cas" /\ mem = expected[t] /\ mem' = desired[t]
          /\ (pc[t] = "cas" /\ pc'[t] = "retry") => loadVer[t] < Ver]_vars
  /\ [](\A t \in Threads : fails[t] <= (NumThreads - 1) * CallsPerThread)
  /\ <>AllDone

C3_Witness == \E t \in Threads : pc[t] = "retry" /\ fails[t] >= 2

\* C10 as stated: a compare-exchange writes only if *addr holds the pattern last
\* loaded; if *addr was written since that load the exchange fails and leaves
\* *addr unchanged; at every attempt desired = expected + offset.
C10_Original ==
  [][\A t \in Threads : CasStep(t) =>
       /\ mem' # mem => mem = expected[t]
       /\ Ver > loadVer[t] => mem' = mem /\ pc'[t] = "retry"
       /\ desired[t] = FAdd(expected[t], offset[t])]_vars

\* C10, amended: a compare-exchange writes only if *addr holds the pattern last
\* loaded; if *addr holds another pattern the exchange fails and leaves *addr
\* unchanged; at every attempt desired = expected + offset.
C10_Amended ==
  [][\A t \in Threads : CasStep(t) =>
       /\ mem' # mem => mem = expected[t]
       /\ mem # expected[t] => mem' = mem /\ pc'[t] = "retry"
       /\ desired[t] = FAdd(expected[t], offset[t])]_vars

C10_Witness ==
  \E t \in Threads : pc[t] = "cas" /\ fails[t] >= 1 /\ mem # expected[t]

\* C4: every lane of the result of to_float_mask, on either path, is 0xFFFFFFFF
\* when the source lane is non-zero and 0x00000000 when it is zero.
C4_MaskPatterns ==
  vec.op \in {"generic", "int"} =>
    \A i \in 1..Lanes : vec.res[i] = IF vec.src[i] # 0 THEN AllOnes ELSE AllZeros

\* C5: the int specialization returns, lane for lane, what the generic path
\* returns for the same input.
C5_PathsAgree == vec.op = "int" => vec.res = ToFloatMask(vec.src)

\* C6: after flag_to_float(src, dst, n), for every i < n, dst[i] is 0xFFFFFFFF if
\* src[i] is non-zero and 0 if it is zero, whatever the other src[j] are.
C6_BatchMask ==
  flag.op = "batch" =>
    \A i \in 1..flag.n :
      flag.dst[i] = IF flag.src[i] # 0 THEN <<65535, 65535>> ELSE <<0, 0>>

C6_Witness ==
  /\ flag.op = "batch" /\ flag.n = 5
  /\ \A i \in 1..5 : flag.src[i] = <<1, 0, 1, 1, 0>>[i]
  /\ \A i \in 1..5 : flag.dst[i] = <<AllOnes, AllZeros, AllOnes, AllOnes, AllZeros>>[i]

\* C7 as stated: the scalar form sets one destination slot to the mask of the
\* source and leaves every other slot unchanged.
C7_Original ==
  flag.op = "scalar" =>
    /\ flag.dst[1] = IF flag.flg # 0 THEN <<65535, 65535>> ELSE <<0, 0>>
    /\ \A j \in 2..BufLen : flag.dst[j] = DstInit[j]

\* C7, amended: the scalar form sets each of the first n destination slots to the
\* mask of the source and leaves every slot from n on unchanged.
C7_Amended ==
  flag.op = "scalar" =>
    \A j \in 1..BufLen :
      flag.dst[j] = IF j <= flag.n
                      THEN (IF flag.flg # 0 THEN <<65535, 65535>> ELSE <<0, 0>>)
                      ELSE DstInit[j]

C7_Witness ==
  /\ flag.op = "scalar" /\ flag.n = 3 /\ flag.flg = 255
  /\ flag.dst[3] = AllOnes /\ flag.dst[4] = DstInit[4]

\* C8: uint32_to_uniform_float is non-decreasing in the low 31 bits of its
\* argument and ignores bit 31.
C8_Monotone ==
  uni.op = "done" =>
    /\ Low31(uni.x) <= Low31(uni.y) => FLe(uni.rx, uni.ry)
    /\ Low31(uni.x) = Low31(uni.y) => uni.rx = uni.ry

\* 0x7FFFFFFF and 0xFFFFFFFF both give 0x3F7FFFFF, the float below 1.0
C8_Witness ==
  /\ uni.op = "done" /\ uni.x = <<32767, 65535>> /\ uni.y = <<65535, 65535>>
  /\ uni.rx = uni.ry /\ uni.rx = <<16255, 65535>>

\* a / b truncated toward zero (a / b representable)
TQuot(a, b) ==
  IF b = IntMin THEN (IF a = IntMin THEN 1 ELSE 0)
  ELSE IF b > 0 THEN (IF a >= 0 THEN a \div b ELSE (a + (b - 1)) \div b)
  ELSE LET d == 0 - b IN 0 - (IF a >= 0 THEN a \div d ELSE (a + (d - 1)) \div d)

\* a - b * trunc(a / b); for a = INT_MIN, b = -1 the quotient 2^31 is no int
TruncRem(a, b) == IF a = IntMin /\ b = 0 - 1 THEN 0 ELSE a - b * TQuot(a, b)

IsTruncRem(r, a, b) ==
  /\ r = TruncRem(a, b)
  /\ (a >= 0 => r >= 0) /\ (a <= 0 => r <= 0)
  /\ IF b > 0 THEN 0 - b < r /\ r < b ELSE b < r /\ b < 0 - r

\* C9 as stated: for all operands with b # 0, mod(a, b) is the truncating
\* remainder, with the sign of a and magnitude below |b|.
C9_Original ==
  md.op = "done" => ~md.trap /\ IsTruncRem(md.res, md.a, md.b)

\* C9, amended: the same, except for a = INT_MIN, b = -1 of a type as wide as int,
\* where a / b overflows and a % b is undefined.
C9_Amended ==
  (md.op = "done" /\ ~Overflows(md.ty, md.a, md.b)) =>
    ~md.trap /\ IsTruncRem(md.res, md.a, md.b)

C9_Witness ==
  md.op = "done" /\ md.a = 0 - 7 /\ md.b = 2 /\ md.res = 0 - 1 /\ ~md.trap

====
